---- MODULE Spec2Model ----
(***************************************************************************)
(* Model of pgnc_upload: the four association writers of pgncdb/inserts.py *)
(* (add_gene_location, add_gene_locus_type, add_gene_name,                 *)
(* add_gene_symbol) driven by process_df / main of main.py, over a         *)
(* relational store reached through one psycopg2 cursor.  Every cursor     *)
(* call of a writer is one action; the store answers as PostgreSQL does    *)
(* for the statements the writers send.                                    *)
(***************************************************************************)
EXTENDS Integers, Sequences, FiniteSets, TLC

(* ---------------------------- bounds ----------------------------------- *)
\* largest number of rows of the input table
MaxLen == 2

(* ------------------------ universe of inputs --------------------------- *)
\* PotriIDs a file may name; "P9" is in no gene row
GeneKeys == {"P1", "P9"}
\* location names a file may name; "LocZ" is in no location row
LocationNames == {"LocA", "LocB", "LocZ"}
\* cells of the Location column as pandas reads them: a string, or an
\* integer when the whole column is numeric (a chromosome number)
LocationCells == {<<"str", l>> : l \in LocationNames} \cup {<<"int64", 7>>}
\* locus type names a file may name; "TZ" is in no locus_type row
LocusTypeNames == {"T1", "TZ"}
\* literals of the Gene name / Gene symbol columns
Literals == {"n1", "n2", "n3"}
\* values of the Name type / Symbol type columns; the store's type column
\* takes the first two and rejects the third
Types == {"approved", "malformed"}
AcceptedTypes == {"approved", "alias"}

\* the result of fetchone() on an empty result set (None)
None == <<>>

Writers == <<"location", "locus_type", "name", "symbol">>
Joined == {"location", "locus_type"}
CreateThenLink == {"name", "symbol"}

VARIABLES
    \* ---- the store, as seen inside the caller's transaction ----
    gene,                  \* rows <<id, potri_id>>
    location,              \* rows <<id, name>>
    locus_type,            \* rows <<id, name>>
    assembly_has_location, \* rows <<assembly_id, location_id>>
    name,                  \* rows <<id, name>>
    symbol,                \* rows <<id, symbol>>
    gene_has_location,     \* rows <<gene_id, location_id>>
    gene_has_locus_type,   \* rows <<gene_id, locus_type_id>>
    gene_has_name,         \* rows <<gene_id, name_id, type>>
    gene_has_symbol,       \* rows <<gene_id, symbol_id, type>>
    name_id_seq,           \* next value of name.id's sequence
    symbol_id_seq,         \* next value of symbol.id's sequence
    \* ---- the caller (main / process_df) ----
    index,                 \* the PotriID index of the data frame
    df,                    \* the rows of the data frame, df[k] at index[k]
    invoked,               \* how many writers process_df has invoked
    commits,               \* how many times conn.commit() was called
    \* ---- the running writer invocation ----
    writer,                \* which writer runs ("none" before the first)
    data,                  \* its argument
    pc,                    \* its position
    i,                     \* loop position (1-based) of its for loops
    cnt,                   \* affected_rows (joined) or cnt (create-then-link)
    dim_id,                \* name_id / symbol_id of the current triple
    inserted_set,          \* set(cur.fetchall()) of the reconciliation read
    unsuccessful_inserts,  \* the list built by the reconciliation loop
    outcome,               \* "running", "returned" or the failure raised
    warnings,              \* arguments of the warning() calls of this invocation
    statements,            \* the cursor calls of this invocation, in order
    before                 \* the association table and the dimension table
                           \* of this writer as they were when it was invoked

store == <<gene, location, locus_type, assembly_has_location, name, symbol,
           gene_has_location, gene_has_locus_type, gene_has_name,
           gene_has_symbol, name_id_seq, symbol_id_seq>>
lookups == <<gene, location, locus_type, assembly_has_location>>
caller == <<index, df, invoked, commits>>
frame == <<writer, data, pc, i, cnt, dim_id, inserted_set,
           unsuccessful_inserts, outcome, warnings, statements, before>>
vars == <<store, caller, frame>>

(* ------------------------- small helpers ------------------------------- *)
Pairs(rows) == {<<r[1], r[2]>> : r \in rows}

(* ------------------- the store's answers to the SQL -------------------- *)
\* rows of the SELECT of add_gene_location's INSERT ... SELECT for one
\* parameter pair: gene x location x assembly_has_location, scoped to
\* assembly 1
LocationSelect(potri_id, location_name) ==
    {<<g[1], l[1]>> : g \in {x \in gene : x[2] = potri_id},
                      l \in {x \in location :
                               /\ x[2] = location_name
                               /\ \E a \in assembly_has_location :
                                     a[1] = 1 /\ a[2] = x[1]}}

\* rows of the SELECT of add_gene_locus_type's INSERT ... SELECT
LocusTypeSelect(potri_id, locus_type_name) ==
    {<<g[1], l[1]>> : g \in {x \in gene : x[2] = potri_id},
                      l \in {x \in locus_type : x[2] = locus_type_name}}

\* variant: the SELECT is a left join from the parameters, a PotriID in no
\* gene row gives one row with gene id 0
LinkSelectOuterJoin(id, type, potri_id) ==
    IF \E x \in gene : x[2] = potri_id
    THEN {<<g[1], id, type>> : g \in {x \in gene : x[2] = potri_id}}
    ELSE {<<0, id, type>>}

\* variant: the potri_id parameter is compared with the wrong column value
LinkSelectWrongKey(id, type, potri_id) ==
    {<<g[1], id, type>> : g \in {x \in gene : x[2] = type}}

\* rows of the SELECT of step 2 of add_gene_name / add_gene_symbol
LinkSelect(id, type, potri_id) ==
    {<<g[1], id, type>> : g \in {x \in gene : x[2] = potri_id}}

\* variant: cur.rowcount is the row count of the last statement alone
RECURSIVE ExecuteManyLastRowcount(_, _, _, _)
ExecuteManyLastRowcount(w, items, table, rowcount) ==
    IF items = <<>>
    THEN [table |-> table, rowcount |-> rowcount, violation |-> FALSE]
    ELSE LET rows == IF w = "location"
                     THEN LocationSelect(Head(items)[1], Head(items)[2])
                     ELSE LocusTypeSelect(Head(items)[1], Head(items)[2])
         IN  IF rows \cap table # {}
             THEN [table |-> table, rowcount |-> rowcount, violation |-> TRUE]
             ELSE ExecuteManyLastRowcount(w, Tail(items), table \cup rows,
                                          Cardinality(rows))

\* variant: the statement carries ON CONFLICT DO NOTHING, a pair already in
\* the table is passed over and counted
RECURSIVE ExecuteManyIgnoreConflict(_, _, _, _)
ExecuteManyIgnoreConflict(w, items, table, rowcount) ==
    IF items = <<>>
    THEN [table |-> table, rowcount |-> rowcount, violation |-> FALSE]
    ELSE LET rows == IF w = "location"
                     THEN LocationSelect(Head(items)[1], Head(items)[2])
                     ELSE LocusTypeSelect(Head(items)[1], Head(items)[2])
         IN  ExecuteManyIgnoreConflict(w, Tail(items), table \cup rows,
                                       rowcount + Cardinality(rows))

\* variant: the statement is an upsert keyed on the gene, the gene's row is
\* replaced by the new one
RECURSIVE ExecuteManyReplace(_, _, _, _)
ExecuteManyReplace(w, items, table, rowcount) ==
    IF items = <<>>
    THEN [table |-> table, rowcount |-> rowcount, violation |-> FALSE]
    ELSE LET rows == IF w = "location"
                     THEN LocationSelect(Head(items)[1], Head(items)[2])
                     ELSE LocusTypeSelect(Head(items)[1], Head(items)[2])
             kept == {t \in table : \A r \in rows : r[1] # t[1]}
         IN  ExecuteManyReplace(w, Tail(items), kept \cup rows,
                                rowcount + Cardinality(rows))

\* cur.executemany: the statement is executed once per parameter pair, in
\* order; a pair whose row is already in the table raises the uniqueness
\* violation 23505 and ends the call, the rows of the pairs before it stay
\* written; cur.rowcount is the sum of the statements' row counts.
RECURSIVE ExecuteMany(_, _, _, _)
ExecuteMany(w, items, table, rowcount) ==
    IF items = <<>>
    THEN [table |-> table, rowcount |-> rowcount, violation |-> FALSE]
    ELSE LET rows == IF w = "location"
                     THEN LocationSelect(Head(items)[1], Head(items)[2])
                     ELSE LocusTypeSelect(Head(items)[1], Head(items)[2])
         IN  IF rows \cap table # {}
             THEN [table |-> table, rowcount |-> rowcount, violation |-> TRUE]
             ELSE ExecuteMany(w, Tail(items), table \cup rows,
                              rowcount + Cardinality(rows))

\* fetchone() of the reconciliation query of each writer: the (gene id,
\* dimension id) of the item's natural keys, None when no row joins.  The
\* location query does not join assembly_has_location.
ResolveJoin(genes, dims, potri_id, dim_name) ==
    LET rows == {<<g[1], d[1]>> : g \in {x \in genes : x[2] = potri_id},
                                  d \in {x \in dims : x[2] = dim_name}}
    IN  IF rows = {} THEN None ELSE CHOOSE r \in rows : TRUE

Resolve(w, item) ==
    CASE w = "location"   -> ResolveJoin(gene, location, item[1], item[2])
      [] w = "locus_type" -> ResolveJoin(gene, locus_type, item[1], item[2])
      [] w = "name"       -> ResolveJoin(gene, name, item[1], item[2])
      [] w = "symbol"     -> ResolveJoin(gene, symbol, item[1], item[2])

\* the association table a writer writes and later reads back
AssociationTable(w) ==
    CASE w = "location"   -> gene_has_location
      [] w = "locus_type" -> gene_has_locus_type
      [] w = "name"       -> gene_has_name
      [] w = "symbol"     -> gene_has_symbol
      [] OTHER            -> {}

\* the dimension table a create-then-link writer inserts its literal into
DimensionTable(w) ==
    CASE w = "name"   -> name
      [] w = "symbol" -> symbol
      [] OTHER        -> {}

\* variant: the keys are those of the table as it was before the writes
StaleKeys(w) == Pairs(before.assoc)

\* SELECT gene_id, <dimension>_id FROM <association table>; fetchall(); set()
PersistedKeys(w) == Pairs(AssociationTable(w))

(* --------------------------- the data frame ---------------------------- *)
Digits == <<"0", "1", "2", "3", "4", "5", "6", "7", "8", "9">>

\* str() of a non-negative integer
RECURSIVE Decimal(_)
Decimal(n) ==
    IF n < 10 THEN Digits[n + 1] ELSE Decimal(n \div 10) \o Digits[(n % 10) + 1]

\* str(row['Location'])
Str(cell) == IF cell[1] = "str" THEN cell[2] ELSE Decimal(cell[2])

\* the cells of the columns each writer's list is built from
Columns(w) ==
    CASE w = "location"   -> {<<c>> : c \in LocationCells}
      [] w = "locus_type" -> {<<l>> : l \in LocusTypeNames}
      [] w = "name"       -> {<<l, t>> : l \in Literals, t \in Types}
      [] w = "symbol"     -> {<<l, t>> : l \in Literals, t \in Types}

\* a row whose associations are all new to a store without earlier rows:
\* the k-th row names the k-th location, locus type and literal
PlainRow(k) ==
    [c \in {"Location", "Locus type", "Gene symbol", "Symbol type",
            "Gene name", "Name type"} |->
        CASE c = "Location"    ->
                <<"str", IF k <= 2 THEN <<"LocA", "LocB">>[k] ELSE "LocZ">>
          [] c = "Locus type"  -> IF k = 1 THEN "T1" ELSE "TZ"
          [] c = "Gene symbol" ->
                IF k <= 3 THEN <<"n1", "n2", "n3">>[k] ELSE "n3"
          [] c = "Gene name"   ->
                IF k <= 3 THEN <<"n1", "n2", "n3">>[k] ELSE "n3"
          [] OTHER             -> "approved"]

\* the k-th row with the cells c in the columns of writer w
RowWith(w, k, c) ==
    CASE w = "location"   -> [PlainRow(k) EXCEPT !["Location"] = c[1]]
      [] w = "locus_type" -> [PlainRow(k) EXCEPT !["Locus type"] = c[1]]
      [] w = "name"       -> [PlainRow(k) EXCEPT !["Gene name"] = c[1],
                                                 !["Name type"] = c[2]]
      [] w = "symbol"     -> [PlainRow(k) EXCEPT !["Gene symbol"] = c[1],
                                                 !["Symbol type"] = c[2]]

\* get_file_data: a table of at most MaxLen rows indexed by PotriID.  The
\* tables differ in the index and in the columns of one writer w; the
\* other columns hold plain rows.
DataFrame(w) ==
    \E n \in 0..MaxLen :
       \E ids \in [1..n -> GeneKeys], cells \in [1..n -> Columns(w)] :
          /\ index = ids
          /\ df = [k \in 1..n |-> RowWith(w, k, cells[k])]

(* ------------------------------ Init ----------------------------------- *)
\* The lookup tables are filled outside the program.  Name, symbol and the
\* association tables may hold rows of earlier uploads; the initial states
\* have such rows (or a location outside assembly 1) in the tables of one
\* writer at a time, and the data frame varies in that writer's columns.
Init ==
    /\ gene = {<<1, "P1">>, <<2, "P2">>}
    /\ location = {<<1, "LocA">>, <<2, "LocB">>}
    /\ locus_type = {<<1, "T1">>}
    /\ \E w \in {"location", "locus_type", "name", "symbol"} :
          /\ assembly_has_location \in
                IF w = "location"
                THEN {{<<1, 1>>, <<1, 2>>}, {<<1, 1>>, <<2, 2>>}}
                ELSE {{<<1, 1>>, <<1, 2>>}}
          /\ gene_has_location \in
                IF w = "location" THEN {{}, {<<1, 1>>}, {<<1, 2>>}} ELSE {{}}
          /\ gene_has_locus_type \in
                IF w = "locus_type" THEN {{}, {<<1, 1>>}} ELSE {{}}
          /\ \E old \in IF w = "name" THEN BOOLEAN ELSE {FALSE} :
                /\ name = IF old THEN {<<1, "n1">>} ELSE {}
                /\ gene_has_name = IF old THEN {<<1, 1, "approved">>} ELSE {}
                /\ name_id_seq = IF old THEN 2 ELSE 1
          /\ \E old \in IF w = "symbol" THEN BOOLEAN ELSE {FALSE} :
                /\ symbol = IF old THEN {<<1, "n1">>} ELSE {}
                /\ gene_has_symbol = IF old THEN {<<1, 1, "approved">>} ELSE {}
                /\ symbol_id_seq = IF old THEN 2 ELSE 1
          /\ DataFrame(w)
    /\ invoked = 0
    /\ commits = 0
    /\ writer = "none"
    /\ data = <<>>
    /\ pc = "idle"
    /\ i = 1
    /\ cnt = 0
    /\ dim_id = 0
    /\ inserted_set = {}
    /\ unsuccessful_inserts = <<>>
    /\ outcome = "returned"
    /\ warnings = <<>>
    /\ statements = <<>>
    /\ before = [assoc |-> {}, dim |-> {}]

(* ----------------------------- process_df ------------------------------ *)
\* the four lists process_df builds from df.iterrows()
gene_location ==
    [k \in 1..Len(index) |-> <<index[k], Str(df[k]["Location"])>>]
gene_locus_type ==
    [k \in 1..Len(index) |-> <<index[k], df[k]["Locus type"]>>]
gene_symbol ==
    [k \in 1..Len(index) |->
        <<index[k], df[k]["Gene symbol"], df[k]["Symbol type"]>>]
gene_name ==
    [k \in 1..Len(index) |->
        <<index[k], df[k]["Gene name"], df[k]["Name type"]>>]

\* variant: the name call is given the symbol list
ArgumentMixedUp(w) ==
    CASE w = "location"   -> gene_location
      [] w = "locus_type" -> gene_locus_type
      [] w = "name"       -> gene_symbol
      [] w = "symbol"     -> gene_symbol

\* the list process_df passes to each writer
Argument(w) ==
    CASE w = "location"   -> gene_location
      [] w = "locus_type" -> gene_locus_type
      [] w = "name"       -> gene_name
      [] w = "symbol"     -> gene_symbol

\* process_df calls the next writer of its fixed order with one item per row
\* of the data frame: the row's PotriID followed by the row's columns.  The
\* call is reached only when the writer before it returned.
Call ==
    /\ pc \in {"idle", "done"}
    /\ outcome = "returned"
    /\ invoked < Len(Writers)
    /\ LET w == Writers[invoked + 1] IN
          /\ writer' = w
          /\ data' = Argument(w)
          /\ before' = [assoc |-> AssociationTable(w), dim |-> DimensionTable(w)]
          /\ IF w \in Joined
             THEN pc' = "executemany"
             ELSE IF Len(index) = 0
                  THEN pc' = "tally"
                  ELSE pc' = "step1"
    /\ invoked' = invoked + 1
    /\ i' = 1
    /\ cnt' = 0
    /\ dim_id' = 0
    /\ inserted_set' = {}
    /\ unsuccessful_inserts' = <<>>
    /\ outcome' = "running"
    /\ warnings' = <<>>
    /\ statements' = <<>>
    /\ UNCHANGED <<store, index, df, commits>>

\* variant: the commit sits in a finally clause, it follows the end of
\* process_df however it ended
CommitInFinally ==
    /\ pc = "done"
    /\ outcome # "running"
    /\ outcome # "returned" \/ invoked = Len(Writers)
    /\ commits = 0
    /\ commits' = commits + 1
    /\ UNCHANGED <<store, index, df, invoked, frame>>

\* main: conn.commit() after process_df returned
Commit ==
    /\ pc \in {"idle", "done"}
    /\ outcome = "returned"
    /\ invoked = Len(Writers)
    /\ commits = 0
    /\ commits' = commits + 1
    /\ UNCHANGED <<store, index, df, invoked, frame>>

(* --------------------- the joined bulk inserter ------------------------ *)
\* add_gene_location / add_gene_locus_type: the executemany call and its
\* except clause.  A uniqueness violation becomes the ValueError
\* (DuplicateAssociation); otherwise affected_rows = cur.rowcount.
JoinedWrite ==
    /\ pc = "executemany"
    /\ writer \in Joined
    /\ LET r == ExecuteMany(writer, data, AssociationTable(writer), 0) IN
       /\ IF writer = "location"
          THEN /\ gene_has_location' = r.table
               /\ UNCHANGED gene_has_locus_type
          ELSE /\ gene_has_locus_type' = r.table
               /\ UNCHANGED gene_has_location
       /\ IF r.violation
          THEN /\ pc' = "done"
               /\ outcome' = "DuplicateAssociation"
               /\ UNCHANGED cnt
          ELSE /\ pc' = "tally"
               /\ cnt' = r.rowcount
               /\ UNCHANGED outcome
    /\ statements' = Append(statements, <<"executemany">>)
    /\ UNCHANGED <<lookups, name, symbol, gene_has_name, gene_has_symbol,
                   name_id_seq, symbol_id_seq, caller, writer, data, i, dim_id,
                   inserted_set, unsuccessful_inserts, warnings, before>>

(* -------------------- the create-then-link inserter -------------------- *)
\* variant: the unique constraint is deferred, within the call it is
\* checked against the rows that were there when the call began
LiteralExistsAtInvocation(w, literal) == \E r \in before.dim : r[2] = literal

\* variant: the dimension table has no unique constraint
LiteralExistsNever(w, literal) == FALSE

\* the unique constraint of name.name / symbol.symbol: the literal is
\* already the value of a row
LiteralExists(w, literal) == \E r \in DimensionTable(w) : r[2] = literal

\* step 1 of a triple: INSERT INTO name/symbol ... RETURNING id, fetchone()[0].
\* A literal already in the table raises 23505, which becomes the ValueError
\* (DuplicateValue).  The sequence hands out its value before the uniqueness
\* check, so a rejected insert uses one up too.
InsertLiteral ==
    /\ pc = "step1"
    /\ writer \in CreateThenLink
    /\ LET literal == data[i][2]
           exists == LiteralExists(writer, literal)
           id == IF writer = "name" THEN name_id_seq ELSE symbol_id_seq
       IN  /\ IF writer = "name"
              THEN /\ name_id_seq' = name_id_seq + 1
                   /\ name' = IF exists THEN name ELSE name \cup {<<id, literal>>}
                   /\ UNCHANGED <<symbol, symbol_id_seq>>
              ELSE /\ symbol_id_seq' = symbol_id_seq + 1
                   /\ symbol' = IF exists THEN symbol
                                ELSE symbol \cup {<<id, literal>>}
                   /\ UNCHANGED <<name, name_id_seq>>
           /\ IF exists
              THEN /\ pc' = "done"
                   /\ outcome' = "DuplicateValue"
                   /\ UNCHANGED dim_id
              ELSE /\ pc' = "step2"
                   /\ dim_id' = id
                   /\ UNCHANGED outcome
           /\ statements' = Append(statements, <<"step1", i, id>>)
    /\ UNCHANGED <<lookups, gene_has_location, gene_has_locus_type,
                   gene_has_name, gene_has_symbol, caller, writer, data, i,
                   cnt, inserted_set, unsuccessful_inserts, warnings, before>>

\* variant: step 2 binds the sequence's next value, not the returned id
NextSequenceValue == IF writer = "name" THEN name_id_seq ELSE symbol_id_seq

\* the id step 2 binds to the association's name_id / symbol_id column
LinkedId == dim_id

\* variant: a failed step 2 is swallowed and the loop goes on with the next
\* triple
InsertLinkSkipsFailure ==
    /\ pc = "step2"
    /\ writer \in CreateThenLink
    /\ LET type == data[i][3]
           rows == LinkSelect(LinkedId, type, data[i][1])
           table == AssociationTable(writer)
           error == \/ type \notin AcceptedTypes
                    \/ Pairs(rows) \cap Pairs(table) # {}
           written == IF error THEN table ELSE table \cup rows
       IN  /\ IF writer = "name"
              THEN /\ gene_has_name' = written
                   /\ UNCHANGED gene_has_symbol
              ELSE /\ gene_has_symbol' = written
                   /\ UNCHANGED gene_has_name
           /\ cnt' = IF error THEN cnt ELSE cnt + Cardinality(rows)
           /\ i' = i + 1
           /\ pc' = IF i < Len(data) THEN "step1" ELSE "tally"
           /\ UNCHANGED outcome
           /\ statements' = Append(statements, <<"step2", i, LinkedId>>)
    /\ UNCHANGED <<lookups, name, symbol, gene_has_location,
                   gene_has_locus_type, name_id_seq, symbol_id_seq, caller,
                   writer, data, dim_id, inserted_set, unsuccessful_inserts,
                   warnings, before>>

\* step 2 of a triple: INSERT INTO gene_has_name/gene_has_symbol ... SELECT
\* gene.id, <id>, <type> FROM gene WHERE potri_id = ...; cnt += cur.rowcount.
\* Any psycopg2.Error becomes the RuntimeError (LinkWriteFailure).
InsertLink ==
    /\ pc = "step2"
    /\ writer \in CreateThenLink
    /\ LET type == data[i][3]
           rows == LinkSelect(LinkedId, type, data[i][1])
           table == AssociationTable(writer)
           error == \/ type \notin AcceptedTypes
                    \/ Pairs(rows) \cap Pairs(table) # {}
           written == IF error THEN table ELSE table \cup rows
       IN  /\ IF writer = "name"
              THEN /\ gene_has_name' = written
                   /\ UNCHANGED gene_has_symbol
              ELSE /\ gene_has_symbol' = written
                   /\ UNCHANGED gene_has_name
           /\ IF error
              THEN /\ pc' = "done"
                   /\ outcome' = "LinkWriteFailure"
                   /\ UNCHANGED <<cnt, i>>
              ELSE /\ cnt' = cnt + Cardinality(rows)
                   /\ i' = i + 1
                   /\ pc' = IF i < Len(data) THEN "step1" ELSE "tally"
                   /\ UNCHANGED outcome
           /\ statements' = Append(statements, <<"step2", i, LinkedId>>)
    /\ UNCHANGED <<lookups, name, symbol, gene_has_location,
                   gene_has_locus_type, name_id_seq, symbol_id_seq, caller,
                   writer, data, dim_id, inserted_set, unsuccessful_inserts,
                   warnings, before>>

(* ---------------------- the reconciliation verifier -------------------- *)
\* variant: the reads are issued after every write phase
AlwaysReconcile == TRUE

\* the test that decides whether the reconciliation reads are issued
Mismatch == cnt # Len(data)

\* "if affected_rows == len(data): return None" and "if cnt != len(data):"
Tally ==
    /\ pc = "tally"
    /\ IF Mismatch
       THEN /\ pc' = "select_all"
            /\ UNCHANGED outcome
       ELSE /\ pc' = "done"
            /\ outcome' = "returned"
    /\ UNCHANGED <<store, caller, writer, data, i, cnt, dim_id, inserted_set,
                   unsuccessful_inserts, warnings, statements, before>>

\* the read of the persisted association keys
SelectAll ==
    /\ pc = "select_all"
    /\ inserted_set' = PersistedKeys(writer)
    /\ i' = 1
    /\ pc' = "resolve"
    /\ statements' = Append(statements, <<"select_all">>)
    /\ UNCHANGED <<store, caller, writer, data, cnt, dim_id,
                   unsuccessful_inserts, outcome, warnings, before>>

\* variant: only an item whose keys join to no row is unsuccessful
UnsuccessfulOnlyNone(result, persisted) == result = None

\* "if result not in inserted_set"
Unsuccessful(result, persisted) == result \notin persisted

\* one turn of the reconciliation loop: re-resolve the item's natural keys
\* and keep the item (its first two fields) when the pair is not persisted
ResolveItem ==
    /\ pc = "resolve"
    /\ LET item == data[i]
           result == Resolve(writer, item)
       IN  unsuccessful_inserts' =
              IF Unsuccessful(result, inserted_set)
              THEN Append(unsuccessful_inserts, <<item[1], item[2]>>)
              ELSE unsuccessful_inserts
    /\ i' = i + 1
    /\ pc' = IF i < Len(data) THEN "resolve" ELSE "conclude"
    /\ statements' = Append(statements, <<"resolve", i>>)
    /\ UNCHANGED <<store, caller, writer, data, cnt, dim_id, inserted_set,
                   outcome, warnings, before>>

\* variant: the writer warns and returns whenever there is a shortfall
WarnOnShortfall == cnt # Len(data)

\* "if unsuccessful_inserts:" - the writer warns and returns when this
\* holds, and raises the RuntimeError (ConsistencyViolation) when it does not
WarnOnly == unsuccessful_inserts # <<>>

\* the end of the writer: one warning listing the unsuccessful items, or
\* the RuntimeError
Conclude ==
    /\ pc = "conclude"
    /\ IF WarnOnly
       THEN /\ warnings' = Append(warnings, unsuccessful_inserts)
            /\ outcome' = "returned"
       ELSE /\ outcome' = "ConsistencyViolation"
            /\ UNCHANGED warnings
    /\ pc' = "done"
    /\ UNCHANGED <<store, caller, writer, data, i, cnt, dim_id, inserted_set,
                   unsuccessful_inserts, statements, before>>

\* the Python exception class each failure is raised as
ExceptionClass(o) ==
    CASE o \in {"DuplicateAssociation", "DuplicateValue"} -> "ValueError"
      [] o \in {"LinkWriteFailure", "ConsistencyViolation"} -> "RuntimeError"
      [] OTHER -> "none"

Next ==
    \/ Call
    \/ Commit
    \/ JoinedWrite
    \/ InsertLiteral
    \/ InsertLink
    \/ Tally
    \/ SelectAll
    \/ ResolveItem
    \/ Conclude

Spec == Init /\ [][Next]_vars

TypeOK ==
    /\ pc \in {"idle", "executemany", "step1", "step2", "tally", "select_all",
               "resolve", "conclude", "done"}
    /\ outcome \in {"running", "returned", "DuplicateAssociation",
                    "DuplicateValue", "LinkWriteFailure", "ConsistencyViolation"}
    /\ invoked \in 0..4
    /\ commits \in 0..1

(* ======================= properties of the writers ===================== *)
\* the invocation has ended (returned or raised)
Done == pc = "done" /\ writer # "none"

\* the reconciliation read of the persisted keys was issued
HasRead == \E k \in 1..Len(statements) : statements[k][1] = "select_all"

\* the item's natural keys join to a row at write time (for a location,
\* through assembly 1)
ResolvesAtWrite(w, item) ==
    CASE w = "location"   -> LocationSelect(item[1], item[2]) # {}
      [] w = "locus_type" -> LocusTypeSelect(item[1], item[2]) # {}
      [] OTHER            -> \E g \in gene : g[2] = item[1]

\* the item names a gene and (joined inserter) a dimension row that exist
KeysKnown(w, item) ==
    /\ \E g \in gene : g[2] = item[1]
    /\ w = "location" => \E l \in location : l[2] = item[2]
    /\ w = "locus_type" => \E l \in locus_type : l[2] = item[2]

\* the item's pair (joined inserter) or literal (create-then-link inserter)
\* was in the store when the writer was invoked
Conflicts(w, item) ==
    IF w \in Joined
    THEN Resolve(w, item) \in Pairs(before.assoc)
    ELSE \E r \in before.dim : r[2] = item[2]

\* an earlier item of the batch has the same resolving pair (joined
\* inserter) or the same literal (create-then-link inserter)
Repeated(k) ==
    \E j \in 1..(k - 1) :
       IF writer \in Joined
       THEN data[j] = data[k] /\ ResolvesAtWrite(writer, data[k])
       ELSE data[j][2] = data[k][2]

NoRepeats == \A k \in 1..Len(data) : ~Repeated(k)

NoConflicts == \A k \in 1..Len(data) : ~Conflicts(writer, data[k])

\* the (PotriID, name or literal) pairs of the items, as the warning lists them
Listed(d) == [k \in 1..Len(d) |-> <<d[k][1], d[k][2]>>]

\* the store accepts the type classifier of every triple
TypesAccepted ==
    writer \in CreateThenLink => \A k \in 1..Len(data) : data[k][3] \in AcceptedTypes

\* no item conflicts with the store and every item resolves
CleanAndResolvable ==
    \A k \in 1..Len(data) :
       /\ ~Conflicts(writer, data[k])
       /\ ResolvesAtWrite(writer, data[k])

FullSuccess == cnt = Len(data) /\ outcome = "returned" /\ warnings = <<>>

\* C1 as stated: a batch with no conflict with the store and every key
\* resolving is counted in full, returns normally and warns of nothing
C1_AsStated == (Done /\ CleanAndResolvable) => FullSuccess

\* C1 (amended): for each writer, a batch with no conflict with the store,
\* every natural key resolving, no pair or literal repeated within the batch
\* and every type classifier accepted by the store has a count equal to the
\* input length, returns normally and emits no warning
C1_CleanBatchSucceeds ==
    (/\ Done
     /\ CleanAndResolvable
     /\ NoRepeats
     /\ TypesAccepted)
    => FullSuccess

C1_Witness ==
    /\ Done
    /\ writer = "name"
    /\ Len(data) = 2
    /\ CleanAndResolvable
    /\ NoRepeats
    /\ TypesAccepted
    /\ FullSuccess

\* C2: in the joined inserter, a batch with a pair already in the
\* association table raises DuplicateAssociation (a ValueError), warns of
\* nothing, issues no reconciliation read and commits nothing
C2_DuplicatePairRaises ==
    (/\ Done
     /\ writer \in Joined
     /\ \E k \in 1..Len(data) : Conflicts(writer, data[k]))
    => /\ outcome = "DuplicateAssociation"
       /\ ExceptionClass(outcome) = "ValueError"
       /\ warnings = <<>>
       /\ ~HasRead
       /\ commits = 0

\* the literal of triple k was in the dimension table when its step 1 ran
ExistsAt(k) == Conflicts(writer, data[k]) \/ Repeated(k)

\* C3: in the create-then-link inserter, a step 1 whose literal is already in
\* the Name/Symbol table raises DuplicateValue (a ValueError) at once: it is
\* the last cursor call of the invocation, no step 2 was issued for that
\* triple and no step for a later one
C3_DuplicateValueBeforeLink ==
    writer \in CreateThenLink =>
       \A n \in 1..Len(statements) :
          (statements[n][1] = "step1" /\ ExistsAt(statements[n][2])) =>
             /\ n = Len(statements)
             /\ pc = "done"
             /\ outcome = "DuplicateValue"
             /\ ExceptionClass(outcome) = "ValueError"
             /\ \A m \in 1..Len(statements) :
                   /\ statements[m][2] <= statements[n][2]
                   /\ statements[m][1] = "step2" =>
                         statements[m][2] < statements[n][2]

C3_Witness ==
    /\ Done
    /\ writer = "name"
    /\ outcome = "DuplicateValue"
    /\ i = 2
    /\ Conflicts(writer, data[2])
    /\ ~Repeated(2)

\* C4 as stated: when some items name an unknown gene or an unknown
\* dimension row and nothing conflicts, exactly those items are unsuccessful,
\* one warning lists exactly them and the call returns
C4_AsStated ==
    (/\ Done
     /\ \E k \in 1..Len(data) : ~KeysKnown(writer, data[k])
     /\ NoConflicts)
    => LET unknown == SelectSeq(Listed(data), LAMBDA it : ~KeysKnown(writer, it))
       IN  /\ unsuccessful_inserts = unknown
           /\ warnings = <<unknown>>
           /\ outcome = "returned"

\* C4 (amended): for every writer, when some items do not resolve at write
\* time (unknown gene, unknown dimension name, or a location outside
\* assembly 1), no item conflicts with the store, no resolving pair or
\* literal is repeated and every type classifier is accepted, reconciliation
\* classifies exactly the items that do not resolve as unsuccessful, one
\* warning lists exactly them in input order, and the call returns normally
C4_UnresolvedItemsWarned ==
    (/\ Done
     /\ \E k \in 1..Len(data) : ~ResolvesAtWrite(writer, data[k])
     /\ NoConflicts
     /\ NoRepeats
     /\ TypesAccepted)
    => LET unresolved ==
              SelectSeq(Listed(data), LAMBDA it : ~ResolvesAtWrite(writer, it))
       IN  /\ unsuccessful_inserts = unresolved
           /\ warnings = <<unresolved>>
           /\ outcome = "returned"

C4_Witness ==
    /\ Done
    /\ writer = "location"
    /\ Len(data) = 2
    /\ NoConflicts
    /\ NoRepeats
    /\ ResolvesAtWrite(writer, data[1])
    /\ KeysKnown(writer, data[2])
    /\ ~ResolvesAtWrite(writer, data[2])
    /\ warnings = <<<<data[2]>>>>
    /\ outcome = "returned"

\* C5: whenever reconciliation ran and the number of unsuccessful items is
\* not the shortfall (input length minus the count), the writer raises
\* ConsistencyViolation
C5_UnexplainedShortfallRaises ==
    (/\ Done
     /\ HasRead
     /\ Len(unsuccessful_inserts) # Len(data) - cnt)
    => outcome = "ConsistencyViolation"

\* C6: in every writer, when the count differs from the input length and
\* reconciliation finds the pair of every item among the persisted keys, the
\* writer raises ConsistencyViolation (a RuntimeError) and emits no warning
C6_NothingMissingRaises ==
    (/\ Done
     /\ HasRead
     /\ cnt # Len(data)
     /\ \A k \in 1..Len(data) : Resolve(writer, data[k]) \in inserted_set)
    => /\ outcome = "ConsistencyViolation"
       /\ ExceptionClass(outcome) = "RuntimeError"
       /\ warnings = <<>>

C6_Witness ==
    /\ Done
    /\ HasRead
    /\ cnt # Len(data)
    /\ Len(data) = 2
    /\ \A k \in 1..Len(data) : Resolve(writer, data[k]) \in inserted_set
    /\ outcome = "ConsistencyViolation"

\* C7: when DuplicateValue is raised at triple i, the rows of the dimension
\* table and of the association table that were there before are still
\* there, each triple before i has its dimension row and (when its gene
\* resolves) its association row, and no other row was added: nothing for
\* triple i or a later one
C7_EarlierTriplesStayWritten ==
    (Done /\ writer \in CreateThenLink /\ outcome = "DuplicateValue") =>
       LET newDim == DimensionTable(writer) \ before.dim
           newAssoc == AssociationTable(writer) \ before.assoc
           linked == {k \in 1..(i - 1) : \E g \in gene : g[2] = data[k][1]}
       IN  /\ before.dim \subseteq DimensionTable(writer)
           /\ before.assoc \subseteq AssociationTable(writer)
           /\ \A k \in 1..(i - 1) :
                 \E d \in newDim :
                    /\ d[2] = data[k][2]
                    /\ \A g \in gene :
                          g[2] = data[k][1] =>
                             <<g[1], d[1], data[k][3]>> \in newAssoc
           /\ Cardinality(newDim) = i - 1
           /\ Cardinality(newAssoc) = Cardinality(linked)

C7_Witness ==
    /\ Done
    /\ writer = "name"
    /\ outcome = "DuplicateValue"
    /\ i = 2
    /\ \E g \in gene : g[2] = data[1][1]
    /\ AssociationTable(writer) # before.assoc

\* the write phase of the invocation ended without an exception
WritesCompleted ==
    \/ pc \in {"tally", "select_all", "resolve", "conclude"}
    \/ pc = "done" /\ outcome \in {"returned", "ConsistencyViolation"}

\* C8: reconciliation reads are issued only if the count differs from the
\* input length, and are issued whenever it does once the writes are over;
\* a fully successful joined call issues the one batched write and nothing
\* else, a fully successful create-then-link call issues two statements per
\* triple and nothing else
C8_ReadsOnlyOnMismatch ==
    writer # "none" =>
       /\ \A n \in 1..Len(statements) :
             statements[n][1] \in {"select_all", "resolve"} => cnt # Len(data)
       /\ (WritesCompleted /\ pc \notin {"tally", "select_all"} /\ cnt # Len(data))
             => HasRead
       /\ (Done /\ outcome = "returned" /\ cnt = Len(data)) =>
             IF writer \in Joined
             THEN statements = <<<<"executemany">>>>
             ELSE /\ Len(statements) = 2 * Len(data)
                  /\ \A n \in 1..Len(statements) :
                        statements[n][1] \in {"step1", "step2"}

C8_Witness ==
    /\ Done
    /\ writer = "symbol"
    /\ outcome = "returned"
    /\ Len(data) = 2
    /\ cnt = Len(data)
    /\ Len(statements) = 4

\* C9: the read of the persisted keys comes after every write of the
\* invocation (the batched write; step 2 of the last triple), no write
\* follows it, and the snapshot holds the key of every row the invocation
\* wrote
C9_SnapshotAfterWrites ==
    writer # "none" =>
       \A n \in 1..Len(statements) :
          statements[n][1] = "select_all" =>
             /\ \A m \in 1..Len(statements) :
                   statements[m][1] \in {"executemany", "step1", "step2"} => m < n
             /\ IF writer \in Joined
                THEN \E m \in 1..(n - 1) : statements[m][1] = "executemany"
                ELSE \E m \in 1..(n - 1) :
                        /\ statements[m][1] = "step2"
                        /\ statements[m][2] = Len(data)
             /\ Pairs(AssociationTable(writer) \ before.assoc) \subseteq inserted_set

C9_Witness ==
    /\ pc = "resolve"
    /\ writer = "name"
    /\ AssociationTable(writer) # before.assoc
    /\ Pairs(AssociationTable(writer) \ before.assoc) \subseteq inserted_set

\* C10: the create-then-link inserter takes the triples in input order,
\* step 1 then step 2 of each before step 1 of the next; step 2 links the id
\* step 1 of the same triple generated, which is the id of the row holding
\* the triple's literal, and the association row carries the triple's type
C10_StepOrderAndLinkedId ==
    writer \in CreateThenLink =>
       LET writes == SelectSeq(statements,
                               LAMBDA s : s[1] \in {"step1", "step2"})
       IN  \A n \in 1..Len(writes) :
              /\ writes[n][2] = (n + 1) \div 2
              /\ writes[n][1] = IF n % 2 = 1 THEN "step1" ELSE "step2"
              /\ n % 2 = 0 =>
                    /\ writes[n][3] = writes[n - 1][3]
                    /\ <<writes[n][3], data[writes[n][2]][2]>>
                          \in DimensionTable(writer)
                    /\ (n < Len(writes) \/ outcome # "LinkWriteFailure") =>
                          \A g \in gene :
                             g[2] = data[writes[n][2]][1] =>
                                <<g[1], writes[n][3], data[writes[n][2]][3]>>
                                   \in AssociationTable(writer)

C10_Witness ==
    /\ Done
    /\ writer = "name"
    /\ Len(data) = 2
    /\ cnt = 2
    /\ Len(statements) = 4
    /\ name # before.dim

(* ============ a store whose association rows outlive their names ======= *)
\* the caller and the writer frame before process_df runs
FrameInit ==
    /\ invoked = 0
    /\ commits = 0
    /\ writer = "none"
    /\ data = <<>>
    /\ pc = "idle"
    /\ i = 1
    /\ cnt = 0
    /\ dim_id = 0
    /\ inserted_set = {}
    /\ unsuccessful_inserts = <<>>
    /\ outcome = "returned"
    /\ warnings = <<>>
    /\ statements = <<>>
    /\ before = [assoc |-> {}, dim |-> {}]

\* The writers rely on no referential constraint.  Here the name (symbol)
\* table was emptied and its sequence restarted while gene_has_name
\* (gene_has_symbol) kept a row, so the id step 1 generates is already
\* linked to gene 1 and step 2 meets the pair's uniqueness violation.
InitLinkConflict ==
    /\ gene = {<<1, "P1">>, <<2, "P2">>}
    /\ location = {<<1, "LocA">>, <<2, "LocB">>}
    /\ locus_type = {<<1, "T1">>}
    /\ assembly_has_location = {<<1, 1>>, <<1, 2>>}
    /\ gene_has_location = {}
    /\ gene_has_locus_type = {}
    /\ name = {}
    /\ symbol = {}
    /\ name_id_seq = 1
    /\ symbol_id_seq = 1
    /\ \E w \in CreateThenLink :
          /\ gene_has_name = IF w = "name" THEN {<<1, 1, "approved">>} ELSE {}
          /\ gene_has_symbol = IF w = "symbol" THEN {<<1, 1, "approved">>} ELSE {}
          /\ DataFrame(w)
    /\ FrameInit

SpecLinkConflict == InitLinkConflict /\ [][Next]_vars

\* the store rejects the step 2 logged at position n: its type classifier
\* is not accepted
StepTwoMalformed(n) == data[statements[n][2]][3] \notin AcceptedTypes

\* the store rejects the step 2 logged at position n: the pair (gene id,
\* linked id) is already in the association table
StepTwoDuplicate(n) ==
    \E g \in gene :
       /\ g[2] = data[statements[n][2]][1]
       /\ <<g[1], statements[n][3]>> \in Pairs(before.assoc)

\* the step 2 logged at position n ended the invocation with
\* LinkWriteFailure (a RuntimeError): nothing follows it, no later triple
\* was touched and it linked nothing
AbortsWithLinkWriteFailure(n) ==
    /\ n = Len(statements)
    /\ pc = "done"
    /\ outcome = "LinkWriteFailure"
    /\ ExceptionClass(outcome) = "RuntimeError"
    /\ \A m \in 1..Len(statements) : statements[m][2] <= statements[n][2]
    /\ \A r \in AssociationTable(writer) \ before.assoc :
          r[2] # statements[n][3]

InitAnyStore == Init \/ InitLinkConflict

SpecAnyStore == InitAnyStore /\ [][Next]_vars

\* at most one row per (gene id, dimension-row id) pair
PairsUnique(table) == Cardinality(Pairs(table)) = Cardinality(table)

\* at most one row per literal value
LiteralsUnique(table) ==
    Cardinality({r[2] : r \in table}) = Cardinality(table)

\* the rows the INSERT ... SELECT of the joined inserter selects for item k
WriteRows(k) ==
    IF writer = "location"
    THEN LocationSelect(data[k][1], data[k][2])
    ELSE LocusTypeSelect(data[k][1], data[k][2])

\* some statement of the executemany call selects a pair that is in the
\* table by then
JoinedAttemptsDuplicate ==
    \E k \in 1..Len(data) :
       WriteRows(k) \cap
          (before.assoc \cup UNION {WriteRows(j) : j \in 1..(k - 1)}) # {}

\* the step 1 logged at position n inserts a literal that is in the
\* dimension table by then
StepOneDuplicate(n) ==
    \/ \E r \in before.dim : r[2] = data[statements[n][2]][2]
    \/ \E j \in 1..(statements[n][2] - 1) :
          data[j][2] = data[statements[n][2]][2]

\* C12: every association table holds at most one row per (gene id,
\* dimension-row id) pair and name and symbol at most one row per literal;
\* a write that would add a second one is rejected with the store's
\* uniqueness violation, the invocation raises, and the rows that were
\* there stay as they were
C12_UniquenessPreserved ==
    /\ PairsUnique(gene_has_location)
    /\ PairsUnique(gene_has_locus_type)
    /\ PairsUnique(gene_has_name)
    /\ PairsUnique(gene_has_symbol)
    /\ LiteralsUnique(name)
    /\ LiteralsUnique(symbol)
    /\ writer # "none" =>
          /\ before.assoc \subseteq AssociationTable(writer)
          /\ before.dim \subseteq DimensionTable(writer)
    /\ (writer \in Joined /\ pc # "executemany") =>
          /\ JoinedAttemptsDuplicate => outcome = "DuplicateAssociation"
          /\ outcome # "DuplicateAssociation" =>
                Cardinality(gene_has_location) + Cardinality(gene_has_locus_type)
                   = Cardinality(before.assoc) + cnt
                     + Cardinality(IF writer = "location"
                                   THEN gene_has_locus_type
                                   ELSE gene_has_location)
    /\ writer \in CreateThenLink =>
          \A n \in 1..Len(statements) :
             /\ (statements[n][1] = "step1" /\ StepOneDuplicate(n)) =>
                   /\ n = Len(statements)
                   /\ outcome = "DuplicateValue"
                   /\ \A r \in DimensionTable(writer) \ before.dim :
                         r[1] # statements[n][3]
             /\ (statements[n][1] = "step2" /\ StepTwoDuplicate(n)) =>
                   /\ n = Len(statements)
                   /\ outcome = "LinkWriteFailure"
                   /\ \A r \in AssociationTable(writer) \ before.assoc :
                         r[2] # statements[n][3]

C12_Witness ==
    /\ Done
    /\ writer = "location"
    /\ outcome = "DuplicateAssociation"
    /\ before.assoc # {}
    /\ \E k \in 1..Len(data) : WriteRows(k) \cap before.assoc # {}
    /\ gene_has_location # before.assoc

\* a step of a writer adds rows and does nothing else to the store
AppendOnly ==
    /\ gene_has_location \subseteq gene_has_location'
    /\ gene_has_locus_type \subseteq gene_has_locus_type'
    /\ gene_has_name \subseteq gene_has_name'
    /\ gene_has_symbol \subseteq gene_has_symbol'
    /\ name \subseteq name'
    /\ symbol \subseteq symbol'
    /\ UNCHANGED lookups

\* C13: every step of every writer invocation is append-only: no row of any
\* table is changed or removed, gene, location, locus_type and
\* assembly_has_location stay as they are, and rows are added only to
\* name, symbol and the four association tables
C13_AppendOnly == [][AppendOnly]_vars

C13_Witness ==
    /\ Done
    /\ writer = "location"
    /\ before.assoc # {}
    /\ before.assoc \subseteq gene_has_location
    /\ before.assoc # gene_has_location
    /\ \E k \in 1..Len(data) :
          \E r \in WriteRows(k) :
             /\ r \notin before.assoc
             /\ \E t \in before.assoc : t[1] = r[1]

\* C14: no writer invocation raises ConsistencyViolation
C14_NoConsistencyViolation == outcome # "ConsistencyViolation"

(* ===================== properties of process_df / main ================= *)
\* the text str() gives for a cell of the Location column
CellText(cell) ==
    CASE cell[1] = "str"    -> cell[2]
      [] cell = <<"int64", 7>> -> "7"

\* the argument of the running invocation has one item per row of the data
\* frame, in row order, made of the row's PotriID and the columns of the
\* writer
OneItemPerRow ==
    /\ Len(data) = Len(index)
    /\ Len(data) = Len(df)
    /\ \A k \in 1..Len(data) :
          /\ data[k][1] = index[k]
          /\ writer = "location" =>
                data[k] = <<index[k], CellText(df[k]["Location"])>>
          /\ writer = "locus_type" =>
                data[k] = <<index[k], df[k]["Locus type"]>>
          /\ writer = "name" =>
                data[k] = <<index[k], df[k]["Gene name"], df[k]["Name type"]>>
          /\ writer = "symbol" =>
                data[k] = <<index[k], df[k]["Gene symbol"],
                            df[k]["Symbol type"]>>

\* a writer is invoked in this step
Invocation == writer' # writer \/ data' # data \/ invoked' # invoked

\* C15: process_df invokes the four writers one after the other, each once,
\* on the one cursor, in the order location, locus type, name, symbol (a
\* writer is invoked only when the one before it returned), and each is
\* passed one item per row of the data frame, in row order, the k-th item
\* made of the k-th row's PotriID and the writer's columns of that row
C15_FourWritersInOrder ==
    /\ [](invoked \in 0..4)
    /\ [](invoked = 0 <=> writer = "none")
    /\ [](invoked >= 1 =>
             /\ writer = <<"location", "locus_type", "name", "symbol">>[invoked]
             /\ OneItemPerRow)
    /\ [][Invocation =>
             /\ invoked' = invoked + 1
             /\ outcome = "returned"
             /\ pc \in {"idle", "done"}
             /\ UNCHANGED store]_vars
    /\ [][UNCHANGED <<index, df>>]_vars

C15_Witness ==
    /\ Done
    /\ invoked = 4
    /\ outcome = "returned"
    /\ Len(data) = 2
    /\ index[1] # index[2]
    /\ data[1][2] = df[1]["Gene symbol"]
    /\ data[1][2] # df[1]["Gene name"]
    /\ data[2][2] # data[1][2]

\* the running invocation has raised
Raised == outcome \notin {"running", "returned"}

\* C16: main commits at most once and only after all four writers have
\* returned; once a writer has raised no writer is invoked, nothing is
\* written and nothing is committed any more
C16_CommitOnlyAfterAllReturned ==
    /\ [](commits \in {0, 1})
    /\ [](commits = 1 =>
             /\ invoked = 4
             /\ pc = "done"
             /\ outcome = "returned")
    /\ [](Raised => commits = 0 /\ pc = "done")
    /\ [][Raised => UNCHANGED vars]_vars
    /\ [][commits' # commits =>
             /\ invoked = 4
             /\ outcome = "returned"
             /\ UNCHANGED <<store, frame>>]_vars

C16_Witness ==
    /\ commits = 1
    /\ gene_has_location # {}
    /\ gene_has_symbol # {}
    /\ warnings # <<>>

(* ============ dimension rows of the create-then-link inserter ========== *)
\* the triples of the batch whose PotriID is in a gene row
ResolvedTriples == {k \in 1..Len(data) : \E g \in gene : g[2] = data[k][1]}

\* the rows the running invocation has added
AddedDimensionRows == DimensionTable(writer) \ before.dim
AddedAssociationRows == AssociationTable(writer) \ before.assoc

\* C17: the create-then-link inserter creates a name/symbol row for every
\* triple it processes, whether or not the triple's gene resolves: every
\* step 1 the store accepted has its row, and when the call returns
\* (with or without a warning) the dimension rows added are as many as the
\* triples, the association rows added as many as the triples whose gene
\* resolves, and the row of each other triple is referenced by no
\* association row
C17_DimensionRowPerTriple ==
    writer \in CreateThenLink =>
       /\ \A n \in 1..Len(statements) :
             (/\ statements[n][1] = "step1"
              /\ ~(n = Len(statements) /\ outcome = "DuplicateValue"))
             => <<statements[n][3], data[statements[n][2]][2]>>
                   \in AddedDimensionRows
       /\ (Done /\ outcome = "returned") =>
             /\ Cardinality(AddedDimensionRows) = Len(data)
             /\ Cardinality(AddedAssociationRows) = Cardinality(ResolvedTriples)
             /\ \A k \in (1..Len(data)) \ ResolvedTriples :
                   \E r \in AddedDimensionRows :
                      /\ r[2] = data[k][2]
                      /\ \A a \in AssociationTable(writer) : a[2] # r[1]

C17_Witness ==
    /\ Done
    /\ writer = "name"
    /\ outcome = "returned"
    /\ Len(data) = 2
    /\ Cardinality(ResolvedTriples) = 1
    /\ Cardinality(AddedDimensionRows) = 2
    /\ before.dim # {}
    /\ warnings # <<>>

(* ===================== an item repeated in the batch =================== *)
\* the batch repeats an item
HasRepeat == \E k \in 1..Len(data) : Repeated(k)

\* the position of the first item that repeats an earlier one
SecondOccurrence ==
    CHOOSE k \in 1..Len(data) :
       Repeated(k) /\ \A j \in 1..(k - 1) : ~Repeated(j)

\* the joined inserter raised DuplicateAssociation at the second occurrence:
\* the table holds the rows of the items before it
DuplicateAssociationAtSecondOccurrence ==
    /\ outcome = "DuplicateAssociation"
    /\ AddedAssociationRows =
          UNION {WriteRows(j) : j \in 1..(SecondOccurrence - 1)}
    /\ AddedAssociationRows # {}

\* the create-then-link inserter raised DuplicateValue at the second
\* occurrence: the triples before it have their name/symbol row and, where
\* the gene resolves, their association row
DuplicateValueAtSecondOccurrence ==
    /\ outcome = "DuplicateValue"
    /\ i = SecondOccurrence
    /\ {r[2] : r \in AddedDimensionRows} =
          {data[j][2] : j \in 1..(SecondOccurrence - 1)}
    /\ Cardinality(AddedDimensionRows) = SecondOccurrence - 1
    /\ Cardinality(AddedAssociationRows) =
          Cardinality({j \in ResolvedTriples : j < SecondOccurrence})

\* C18 as stated: on a store with no prior conflict a batch that repeats a
\* resolvable pair (joined inserter) raises DuplicateAssociation, and a
\* batch that repeats a literal (create-then-link inserter) raises
\* DuplicateValue, at the second occurrence and with the rows of the
\* earlier items written
C18_AsStated ==
    (Done /\ NoConflicts /\ HasRepeat) =>
       IF writer \in Joined
       THEN DuplicateAssociationAtSecondOccurrence
       ELSE DuplicateValueAtSecondOccurrence

\* the store accepts step 2 of every triple before the second occurrence
EarlierLinksAccepted ==
    \A j \in 1..(SecondOccurrence - 1) : data[j][3] \in AcceptedTypes

\* C18 (amended): on a store with no prior conflict a batch that repeats a
\* resolvable pair raises DuplicateAssociation in the joined inserter, and
\* a batch that repeats a literal raises DuplicateValue in the
\* create-then-link inserter provided the store accepts step 2 of every
\* triple before the second occurrence; the exception is raised at the
\* second occurrence, with the rows of the earlier items written.  When
\* the store rejects an earlier step 2 the call ends there with
\* LinkWriteFailure.
C18_RepeatedItemRaises ==
    (Done /\ NoConflicts /\ HasRepeat) =>
       IF writer \in Joined
       THEN DuplicateAssociationAtSecondOccurrence
       ELSE IF EarlierLinksAccepted
            THEN DuplicateValueAtSecondOccurrence
            ELSE outcome = "LinkWriteFailure" /\ i < SecondOccurrence

C18_Witness ==
    /\ Done
    /\ writer = "symbol"
    /\ before.dim = {}
    /\ HasRepeat
    /\ outcome = "DuplicateValue"
    /\ i = 2
    /\ Cardinality(AddedDimensionRows) = 1
    /\ Cardinality(AddedAssociationRows) = 1

====
